---- MODULE Spec2Model ----
(***************************************************************************)
(* Weather-Activity-Planner: the activity scoring engine of                *)
(* backend/src/services/activityRankingService.js.                         *)
(*                                                                         *)
(* Numbers.  A JavaScript number is an IEEE-754 double.  The numbers of    *)
(* a forecast are decimal literals; a day record holds the literal as an   *)
(* integer count of steps, Scale steps per unit, so 25 degrees is 25*Scale *)
(* and 0.3 mm is 3 (at Scale = 10), and the double it denotes is           *)
(* Literal(steps).  A computed number (a score, a total) is a record       *)
(* [k, r] that stands for the double  k/Scale + r/(Scale * 2^56):  k is    *)
(* the decimal value in steps and r the distance of the double from it, in *)
(* units small enough to be an integer for every double of magnitude       *)
(* 1/16 and more.  RoundToDouble rounds an exact result to the nearest     *)
(* double, ties to even, as every arithmetic operation of the program      *)
(* does.  A number is an integer of the program exactly when k is a        *)
(* multiple of Scale and r = 0.  averageScore, which can be NaN and is an  *)
(* integer otherwise, is a record [nan, val] with val in steps.            *)
(*                                                                         *)
(* Missing and null fields.  A day record carries the set `missing` of the *)
(* fields that are absent (undefined) or hold a value that converts to     *)
(* NaN, and the set `nulls` of the fields that hold null.  Every           *)
(* relational comparison of a missing field with a number is false in      *)
(* JavaScript; null converts to 0 in a relational comparison and is not    *)
(* === 0.  This is how GT, LT, GE, LE and StrictEq read a field.           *)
(***************************************************************************)
EXTENDS Integers, Sequences, FiniteSets, TLC

VARIABLES weather, scores, scorePc, calls, band, requests

vars == <<weather, scores, scorePc, calls, band, requests>>

\* Steps per unit of the fixed-point numbers.
Scale == 10

\* Longest weather sequence passed to calculateActivityRankings.
MaxDays == 2

\* The number n of the source, in model units.
Num(n) == n * Scale

----------------------------------------------------------------------------
(* JavaScript primitives used by the scoring functions *)

Has(w, f) == f \notin w.missing

\* The number weather.f converts to in a comparison: null converts to 0.
ToNumber(w, f) == IF f \in w.nulls THEN 0 ELSE w[f]

\* weather.f > n
GT(w, f, n) == Has(w, f) /\ ToNumber(w, f) > n

\* weather.f < n
LT(w, f, n) == Has(w, f) /\ ToNumber(w, f) < n

\* weather.f >= n
GE(w, f, n) == Has(w, f) /\ ToNumber(w, f) >= n

\* weather.f <= n
LE(w, f, n) == Has(w, f) /\ ToNumber(w, f) <= n

\* weather.f === n, which is false of null
StrictEq(w, f, n) == Has(w, f) /\ f \notin w.nulls /\ w[f] = n

----------------------------------------------------------------------------
(* Double arithmetic *)

\* 2^n modulo m, for n up to 56, without a power beyond 2^28
Pow2Mod(n, m) ==
  IF n <= 28 THEN (2 ^ n) % m ELSE (((2 ^ 28) % m) * ((2 ^ (n - 28)) % m)) % m

\* The binade of the positive number x = k/Scale + r/(Scale * 2^56), as the
\* j with 2^(j-4) <= x < 2^(j-3).  In units of 1/(Scale * 2^56) the doubles
\* of that binade are the multiples of ulp = Scale * 2^j.  r is too small
\* to matter unless k/Scale is a power of two.
Binade(k, r) ==
  LET j == CHOOSE x \in 0..26 : Scale * 2 ^ x <= 16 * k /\ 16 * k < Scale * 2 ^ (x + 1)
  IN  IF 16 * k = Scale * 2 ^ j /\ r < 0 THEN j - 1 ELSE j

\* x modulo ulp, in the same units: k * 2^56 mod ulp is
\* 2^j * (k * 2^(56-j) mod Scale).
Residue(k, r, j) ==
  (2 ^ j * (((k % Scale) * Pow2Mod(56 - j, Scale)) % Scale) + r) % (Scale * 2 ^ j)

\* Whether the mantissa of the double below x is odd.
OddBelow(k, r, j, rest) ==
  (2 ^ (j + 1) * (((k % Scale) * Pow2Mod(55 - j, Scale)) % Scale) + r - rest)
    % (2 * Scale * 2 ^ j) # 0

\* The nearer of the two doubles around x, the one of even mantissa at a tie.
RoundBy(k, r, j, rest) ==
  IF 2 * rest < Scale * 2 ^ j \/ (2 * rest = Scale * 2 ^ j /\ ~OddBelow(k, r, j, rest))
  THEN [k |-> k, r |-> r - rest]
  ELSE [k |-> k, r |-> r + Scale * 2 ^ j - rest]

RoundIn(k, r, j) == RoundBy(k, r, j, Residue(k, r, j))

\* The double nearest the positive number k/Scale + r/(Scale * 2^56).
RoundPositive(k, r) == RoundIn(k, r, Binade(k, r))

Negate(a) == [k |-> 0 - a.k, r |-> 0 - a.r]

\* The double an exact result rounds to.  Integers are doubles, and a
\* result with k = 0 comes from subtracting doubles within a factor of two
\* of each other, which is exact.
RoundToDouble(k, r) ==
  IF k = 0 \/ (r = 0 /\ k % Scale = 0) THEN [k |-> k, r |-> r]
  ELSE IF k > 0 THEN RoundPositive(k, r)
  ELSE Negate(RoundPositive(0 - k, 0 - r))

\* The double of the decimal literal of k steps.
Literal(k) == RoundToDouble(k, 0)

\* The double of the whole number n.
Whole(n) == [k |-> Num(n), r |-> 0]

\* a + b
Add(a, b) == RoundToDouble(a.k + b.k, a.r + b.r)

\* a - b
Sub(a, b) == RoundToDouble(a.k - b.k, a.r - b.r)

\* a * n, n an integer
Mul(a, n) == RoundToDouble(a.k * n, a.r * n)

\* a < b
Less(a, b) == a.k < b.k \/ (a.k = b.k /\ a.r < b.r)

\* a >= b
AtLeast(a, b) == ~Less(a, b)

MathMin(a, b) == IF Less(a, b) THEN a ELSE b

MathMax(a, b) == IF Less(b, a) THEN a ELSE b

----------------------------------------------------------------------------
(* The four scoring functions *)

scoreSkiingUnclamped(w) ==
  LET s0 == Whole(0)
      s1 == IF GT(w, "snowfall", Num(0))
            THEN Add(s0, MathMin(Whole(50), Mul(Literal(w.snowfall), 5))) ELSE s0
      s2 == IF LT(w, "maxTemp", Num(2)) THEN Add(s1, Whole(30))
            ELSE IF LT(w, "maxTemp", Num(7)) THEN Add(s1, Whole(15)) ELSE s1
      s3 == IF GT(w, "windSpeed", Num(40)) THEN Sub(s2, Whole(15)) ELSE s2
      s4 == IF GT(w, "precipitation", Num(5)) THEN Sub(s3, Whole(10)) ELSE s3
  IN  s4

scoreSkiingTempInclusive(w) ==
  LET s0 == Whole(0)
      s1 == IF GT(w, "snowfall", Num(0))
            THEN Add(s0, MathMin(Whole(50), Mul(Literal(w.snowfall), 5))) ELSE s0
      s2 == IF LE(w, "maxTemp", Num(2)) THEN Add(s1, Whole(30))
            ELSE IF LT(w, "maxTemp", Num(7)) THEN Add(s1, Whole(15)) ELSE s1
      s3 == IF GT(w, "windSpeed", Num(40)) THEN Sub(s2, Whole(15)) ELSE s2
      s4 == IF GT(w, "precipitation", Num(5)) THEN Sub(s3, Whole(10)) ELSE s3
  IN  MathMax(Whole(0), MathMin(Whole(100), s4))

scoreSkiing(w) ==
  LET s0 == Whole(0)
      s1 == IF GT(w, "snowfall", Num(0))
            THEN Add(s0, MathMin(Whole(50), Mul(Literal(w.snowfall), 5))) ELSE s0
      s2 == IF LT(w, "maxTemp", Num(2)) THEN Add(s1, Whole(30))
            ELSE IF LT(w, "maxTemp", Num(7)) THEN Add(s1, Whole(15)) ELSE s1
      s3 == IF GT(w, "windSpeed", Num(40)) THEN Sub(s2, Whole(15)) ELSE s2
      s4 == IF GT(w, "precipitation", Num(5)) THEN Sub(s3, Whole(10)) ELSE s3
  IN  MathMax(Whole(0), MathMin(Whole(100), s4))

scoreSurfingWindInclusive(w) ==
  LET s0 == Whole(50)
      s1 == IF GT(w, "windSpeed", Num(10)) /\ LE(w, "windSpeed", Num(35))
            THEN Add(s0, Whole(25))
            ELSE IF GT(w, "windSpeed", Num(40)) THEN Sub(s0, Whole(20)) ELSE s0
      s2 == IF GT(w, "maxTemp", Num(18)) THEN Add(s1, Whole(20)) ELSE s1
      s3 == IF GT(w, "precipitation", Num(8)) THEN Sub(s2, Whole(15)) ELSE s2
  IN  MathMax(Whole(0), MathMin(Whole(100), s3))

scoreSurfing(w) ==
  LET s0 == Whole(50)
      s1 == IF GT(w, "windSpeed", Num(10)) /\ LT(w, "windSpeed", Num(35))
            THEN Add(s0, Whole(25))
            ELSE IF GT(w, "windSpeed", Num(40)) THEN Sub(s0, Whole(20)) ELSE s0
      s2 == IF GT(w, "maxTemp", Num(18)) THEN Add(s1, Whole(20)) ELSE s1
      s3 == IF GT(w, "precipitation", Num(8)) THEN Sub(s2, Whole(15)) ELSE s2
  IN  MathMax(Whole(0), MathMin(Whole(100), s3))

scoreOutdoorSightseeingTempStrict(w) ==
  LET s0 == Whole(60)
      s1 == IF LT(w, "cloudCover", Num(40)) THEN Add(s0, Whole(20))
            ELSE IF GT(w, "cloudCover", Num(80)) THEN Sub(s0, Whole(10)) ELSE s0
      s2 == IF GT(w, "maxTemp", Num(15)) /\ LT(w, "maxTemp", Num(28))
            THEN Add(s1, Whole(20))
            ELSE IF LT(w, "maxTemp", Num(5)) \/ GT(w, "maxTemp", Num(35))
                 THEN Sub(s1, Whole(20)) ELSE s1
      s3 == IF GT(w, "precipitation", Num(0))
            THEN Sub(s2, Mul(Literal(w.precipitation), 2)) ELSE s2
  IN  MathMax(Whole(0), MathMin(Whole(100), s3))

scoreOutdoorSightseeing(w) ==
  LET s0 == Whole(60)
      s1 == IF LT(w, "cloudCover", Num(40)) THEN Add(s0, Whole(20))
            ELSE IF GT(w, "cloudCover", Num(80)) THEN Sub(s0, Whole(10)) ELSE s0
      s2 == IF GE(w, "maxTemp", Num(15)) /\ LE(w, "maxTemp", Num(28))
            THEN Add(s1, Whole(20))
            ELSE IF LT(w, "maxTemp", Num(5)) \/ GT(w, "maxTemp", Num(35))
                 THEN Sub(s1, Whole(20)) ELSE s1
      s3 == IF GT(w, "precipitation", Num(0))
            THEN Sub(s2, Mul(Literal(w.precipitation), 2)) ELSE s2
  IN  MathMax(Whole(0), MathMin(Whole(100), s3))

scoreIndoorSightseeingTempInclusive(w) ==
  LET s0 == Whole(70)
      s1 == IF GT(w, "precipitation", Num(5)) THEN Add(s0, Whole(15)) ELSE s0
      s2 == IF LT(w, "maxTemp", Num(5)) \/ GT(w, "maxTemp", Num(30))
            THEN Add(s1, Whole(15)) ELSE s1
      s3 == IF /\ StrictEq(w, "precipitation", Num(0))
               /\ LT(w, "cloudCover", Num(50))
               /\ GE(w, "maxTemp", Num(15))
               /\ LE(w, "maxTemp", Num(25))
            THEN Sub(s2, Whole(20)) ELSE s2
  IN  MathMax(Whole(0), MathMin(Whole(100), s3))

scoreIndoorSightseeingLowerInclusive(w) ==
  LET s0 == Whole(70)
      s1 == IF GT(w, "precipitation", Num(5)) THEN Add(s0, Whole(15)) ELSE s0
      s2 == IF LT(w, "maxTemp", Num(5)) \/ GT(w, "maxTemp", Num(30))
            THEN Add(s1, Whole(15)) ELSE s1
      s3 == IF /\ StrictEq(w, "precipitation", Num(0))
               /\ LT(w, "cloudCover", Num(50))
               /\ GE(w, "maxTemp", Num(15))
               /\ LT(w, "maxTemp", Num(25))
            THEN Sub(s2, Whole(20)) ELSE s2
  IN  MathMax(Whole(0), MathMin(Whole(100), s3))

scoreIndoorSightseeing(w) ==
  LET s0 == Whole(70)
      s1 == IF GT(w, "precipitation", Num(5)) THEN Add(s0, Whole(15)) ELSE s0
      s2 == IF LT(w, "maxTemp", Num(5)) \/ GT(w, "maxTemp", Num(30))
            THEN Add(s1, Whole(15)) ELSE s1
      s3 == IF /\ StrictEq(w, "precipitation", Num(0))
               /\ LT(w, "cloudCover", Num(50))
               /\ GT(w, "maxTemp", Num(15))
               /\ LT(w, "maxTemp", Num(25))
            THEN Sub(s2, Whole(20)) ELSE s2
  IN  MathMax(Whole(0), MathMin(Whole(100), s3))

\* The activity table in alphabetical order.
activitiesAlphabetical ==
  <<"Indoor Sightseeing", "Outdoor Sightseeing", "Skiing", "Surfing">>

\* The activity table of calculateActivityRankings, in its order.
activities == <<"Skiing", "Surfing", "Outdoor Sightseeing", "Indoor Sightseeing">>

\* activity.scoreFn(day) for the table entry named name.
scoreFn(name, day) ==
  CASE name = "Skiing" -> scoreSkiing(day)
    [] name = "Surfing" -> scoreSurfing(day)
    [] name = "Outdoor Sightseeing" -> scoreOutdoorSightseeing(day)
    [] name = "Indoor Sightseeing" -> scoreIndoorSightseeing(day)

----------------------------------------------------------------------------
(* Text helpers *)

getConditionDescriptionGreatAt80(score) ==
  IF AtLeast(score, Whole(80)) THEN "Great"
  ELSE IF AtLeast(score, Whole(60)) THEN "Good"
  ELSE IF AtLeast(score, Whole(40)) THEN "OK"
  ELSE "Poor"

getConditionDescription(score) ==
  IF AtLeast(score, Whole(75)) THEN "Great"
  ELSE IF AtLeast(score, Whole(60)) THEN "Good"
  ELSE IF AtLeast(score, Whole(40)) THEN "OK"
  ELSE "Poor"

\* getScoreColor of the ActivityCard component
getScoreColor(score) ==
  IF AtLeast(score, Whole(80)) THEN "#10b981"
  ELSE IF AtLeast(score, Whole(60)) THEN "#3b82f6"
  ELSE IF AtLeast(score, Whole(40)) THEN "#f59e0b"
  ELSE IF AtLeast(score, Whole(20)) THEN "#ef4444"
  ELSE "#6b7280"

\* The band of a score in the Scoring System of the service's header.
scoringSystemBand(score) ==
  IF AtLeast(score, Whole(80)) THEN "Excellent"
  ELSE IF AtLeast(score, Whole(60)) THEN "Good"
  ELSE IF AtLeast(score, Whole(40)) THEN "Fair"
  ELSE IF AtLeast(score, Whole(20)) THEN "Poor"
  ELSE "Very poor"

\* avgScore >= n, false when avgScore is NaN
AvgGE(avgScore, n) == ~avgScore.nan /\ avgScore.val >= n

getRecommendationAbove70(activity, avgScore) ==
  IF ~avgScore.nan /\ avgScore.val > Num(70) THEN "Perfect week for " \o activity \o "!"
  ELSE IF AvgGE(avgScore, Num(50))
       THEN "Decent conditions for " \o activity \o " this week."
  ELSE "Not the best week for " \o activity \o "."

getRecommendation(activity, avgScore) ==
  IF AvgGE(avgScore, Num(70)) THEN "Perfect week for " \o activity \o "!"
  ELSE IF AvgGE(avgScore, Num(50))
       THEN "Decent conditions for " \o activity \o " this week."
  ELSE "Not the best week for " \o activity \o "."

----------------------------------------------------------------------------
(* The aggregator *)

NaN == [nan |-> TRUE, val |-> 0]

\* A variant of the day mapping that walks the days from the last to the first.
mapDaysReversed(activity, weatherData) ==
  [i \in 1..Len(weatherData) |->
     LET day == weatherData[Len(weatherData) + 1 - i]
     IN  [date |-> day.date,
          score |-> scoreFn(activity, day),
          conditions |-> getConditionDescription(scoreFn(activity, day))]]

\* weatherData.map(day => ({date, score, conditions}))
mapDays(activity, weatherData) ==
  [i \in 1..Len(weatherData) |->
     [date |-> weatherData[i].date,
      score |-> scoreFn(activity, weatherData[i]),
      conditions |-> getConditionDescription(scoreFn(activity, weatherData[i]))]]

\* dailyScores.reduce((sum, day) => sum + day.score, 0)
RECURSIVE reduceSum(_, _)
reduceSum(dailyScores, sum) ==
  IF dailyScores = <<>> THEN sum
  ELSE reduceSum(Tail(dailyScores), Add(sum, Head(dailyScores).score))

\* Math.round(totalScore / length): 0/0 is NaN, and Math.round(NaN) is NaN.
\* Otherwise the quotient is rounded to a double and Math.round takes
\* floor(x + 1/2) of that double x.  With X the integer the decimal value
\* of the quotient rounds to, x >= X - 1/2 unless the decimal value is
\* exactly X - 1/2 and the total lies below it by more than the quotient's
\* rounding absorbs: half the distance from X - 1/2 to the double before it,
\* which is length * Scale * 2^(e+3) units for 2^e <= X - 1/2, and half of
\* that for X - 1/2 = 1/2, a power of two.
MathRoundDiv(totalScore, length) ==
  IF length = 0 THEN NaN
  ELSE LET X == (2 * totalScore.k + Scale * length) \div (2 * Scale * length)
           tie == (2 * totalScore.k + Scale * length) % (2 * Scale * length) = 0
           e == CHOOSE x \in 0..24 : 2 * 2 ^ x <= 2 * X - 1 /\ 2 * X - 1 < 2 * 2 ^ (x + 1)
           absorbed == IF X = 1 THEN length * Scale * 2
                       ELSE length * Scale * 2 ^ (e + 3)
       IN  [nan |-> FALSE,
            val |-> IF tie /\ totalScore.r < 0 - absorbed THEN Num(X - 1) ELSE Num(X)]

\* weatherData after weatherData.reverse(), which reorders the array in place.
weatherDataAfterReverse(weatherData) ==
  [i \in 1..Len(weatherData) |-> weatherData[Len(weatherData) + 1 - i]]

\* weatherData after weatherData.map(...): map builds a new array and the
\* callback only reads day.date and the fields the scoring functions read.
weatherDataAfterMap(weatherData) == weatherData

\* The callback of activities.map: the ranking of one activity.
\* It reads its two arguments and nothing else: the function has no
\* module-level binding it assigns, no clock and no random source.
rankActivity(activity, weatherData) ==
  LET dailyScores == mapDays(activity, weatherData)
      totalScore == reduceSum(dailyScores, Whole(0))
      averageScore == MathRoundDiv(totalScore, Len(dailyScores))
  IN  [activity |-> activity,
       averageScore |-> averageScore,
       dailyScores |-> dailyScores,
       recommendation |-> getRecommendation(activity, averageScore)]

\* The whole function, as one value.
calculateActivityRankings(weatherData) ==
  [i \in 1..Len(activities) |-> rankActivity(activities[i], weatherData)]

----------------------------------------------------------------------------
(* Inputs *)

Day(date, maxTemp, minTemp, precipitation, windSpeed, snowfall, cloudCover, missing) ==
  [date |-> date, maxTemp |-> maxTemp, minTemp |-> minTemp,
   precipitation |-> precipitation, windSpeed |-> windSpeed,
   snowfall |-> snowfall, cloudCover |-> cloudCover, missing |-> missing,
   nulls |-> {}]

\* {maxTemp:25, minTemp:15, precipitation:0, windSpeed:20, snowfall:0, cloudCover:10}
SunnyDay == Day("2024-06-01", Num(25), Num(15), Num(0), Num(20), Num(0), Num(10), {})

\* {maxTemp:1, minTemp:-5, precipitation:0, windSpeed:10, snowfall:4, cloudCover:20}
SnowyDay == Day("2024-06-02", Num(1), Num(-5), Num(0), Num(10), Num(4), Num(20), {})

\* precipitation 0.3 mm and snowfall 0.5 cm (3 and 5 steps at Scale = 10)
DrizzleDay == Day("2024-06-03", Num(20), Num(10), 3, Num(12), 5, Num(60), {})

\* SnowyDay as the forecast delivers it without maxTemp and snowfall
PartialDay == Day("2024-06-04", Num(1), Num(-5), Num(0), Num(10), Num(4), Num(20),
                  {"maxTemp", "snowfall"})

\* A cold day with 12 cm of snow: Skiing scores 50 + 30 = 80.
PowderDay == Day("2024-06-05", Num(-2), Num(-8), Num(0), Num(15), Num(12), Num(30), {})

\* A mild overcast day with 0.2 mm of rain: Outdoor Sightseeing is 80 - 0.4.
MistDay == Day("2024-06-06", Num(20), Num(10), 2, Num(12), Num(0), Num(60), {})

\* The same day with 8.3 mm of rain: Outdoor Sightseeing is 80 - 16.6.
ShowerDay == Day("2024-06-07", Num(20), Num(10), Num(8) + 3, Num(12), Num(0), Num(60), {})

SampleDays == {DrizzleDay, PartialDay, MistDay, ShowerDay}

WeatherSeqs == UNION {[1..n -> SampleDays] : n \in 0..MaxDays}

\* forecast_days of the forecast request: the length of a fetched week.
ForecastDays == 7

\* The weeks of sunny and powder days, and the empty sequence.
WeekSeqs == [1..ForecastDays -> {SunnyDay, PowderDay}] \cup {<<>>}

\* Boundary values of every threshold of the scoring rules, one step
\* on either side of each, and extreme values.
GridMaxTemp ==
  {Num(-5), Num(1), Num(2) - 1, Num(2), Num(5) - 1, Num(5), Num(7) - 1, Num(7),
   Num(15) - 1, Num(15), Num(15) + 1, Num(18), Num(18) + 1, Num(25) - 1,
   Num(25), Num(28), Num(28) + 1, Num(30), Num(30) + 1, Num(35), Num(35) + 1}

GridPrecipitation ==
  {Num(0), 3, Num(5), Num(5) + 1, Num(8), Num(8) + 1, Num(50), Num(1000)}

GridWindSpeed ==
  {Num(0), Num(10), Num(10) + 1, Num(20), Num(35) - 1, Num(35), Num(37),
   Num(40), Num(40) + 1}

GridSnowfall == {Num(0), 5, Num(4), Num(10), Num(10) + 1, Num(1000)}

GridCloudCover ==
  {Num(0), Num(10), Num(20), Num(40) - 1, Num(40), Num(50) - 1, Num(50),
   Num(80), Num(80) + 1, Num(100)}

GridMinTemp == {Num(-5), Num(15)}

----------------------------------------------------------------------------
(* The weather service and the resolver *)

Locations == {"London", "Atlantis"}

\* Messages of the errors axios rejects with.  Strings are atomic here, so
\* error.message.includes('not found') is the membership in the set of the
\* messages that contain these words.
ApiErrors == {"Network Error", "Request failed with status code 500", "Resource not found"}

\* error.message.includes('not found')
includesNotFound(message) ==
  message \in {"Resource not found"} \cup {"Location \"" \o l \o "\" not found" : l \in Locations}

\* The results of a geocoding response: none, or one place.
GeocodeResults ==
  {<<>>,
   <<[name |-> "London", country |-> "United Kingdom",
      latitude |-> Num(51), longitude |-> Num(0)]>>,
   <<[name |-> "Zermatt", country |-> "Switzerland",
      latitude |-> Num(46), longitude |-> Num(8)]>>}

\* geocodeLocation on a response: the first result, or the thrown message.
\* The catch block rethrows an error whose message includes 'not found'.
geocodeLocation(location, results) ==
  IF results = <<>>
  THEN LET message == "Location \"" \o location \o "\" not found"
       IN  [ok |-> FALSE,
            message |-> IF includesNotFound(message) THEN message
                        ELSE "Geocoding failed: " \o message,
            value |-> <<>>]
  ELSE [ok |-> TRUE, message |-> "",
        value |-> <<[latitude |-> results[1].latitude,
                     longitude |-> results[1].longitude,
                     displayName |-> results[1].name \o ", " \o results[1].country]>>]

\* The catch block of geocodeLocation on a rejected request.
geocodeCatch(message) ==
  IF includesNotFound(message) THEN message ELSE "Geocoding failed: " \o message

\* The catch block of getWeatherForecast.
forecastCatch(message) == "Weather forecast failed: " \o message

\* A variant of the resolver's catch block that reports the location only.
resolverCatchLocationOnly(location, message) ==
  "Failed to fetch forecast for " \o location

\* The catch block of the resolver.
resolverCatch(location, message) ==
  "Failed to fetch forecast for " \o location \o ": " \o message

ForecastDates ==
  <<"2024-06-01", "2024-06-02", "2024-06-03", "2024-06-04", "2024-06-05",
    "2024-06-06", "2024-06-07">>

\* The daily block of a forecast response, entry i holding the i-th element
\* of each array; `nulls` names the arrays whose element is null.
DailyOf(day, nulls) ==
  [i \in 1..ForecastDays |->
     [time |-> ForecastDates[i],
      temperature_2m_max |-> day.maxTemp,
      temperature_2m_min |-> day.minTemp,
      precipitation_sum |-> day.precipitation,
      windspeed_10m_max |-> day.windSpeed,
      snowfall_sum |-> day.snowfall,
      cloudcover_mean |-> day.cloudCover,
      nulls |-> nulls]]

\* Responses of the forecast API: a sunny week, a powder week, a week
\* whose precipitation and snowfall sums are null, a sunny week whose
\* maximum temperatures are null, and one whose wind speeds and cloud
\* covers are null.
ForecastResponses ==
  {DailyOf(SunnyDay, {}), DailyOf(PowderDay, {}),
   DailyOf(DrizzleDay, {"precipitation_sum", "snowfall_sum"}),
   DailyOf(SunnyDay, {"temperature_2m_max"}),
   DailyOf(SunnyDay, {"windspeed_10m_max", "cloudcover_mean"})}

\* The field of a day that the element of a daily array goes to unchanged.
fieldOf(array) ==
  CASE array = "temperature_2m_max" -> "maxTemp"
    [] array = "temperature_2m_min" -> "minTemp"
    [] array = "windspeed_10m_max" -> "windSpeed"
    [] array = "cloudcover_mean" -> "cloudCover"

\* daily.time.map((date, index) => ({...})) of getWeatherForecast: `|| 0`
\* turns a null precipitation or snowfall into 0, and every other element
\* is copied as it is, null included.
toWeatherData(daily) ==
  [i \in 1..Len(daily) |->
     [date |-> daily[i].time,
      maxTemp |-> daily[i].temperature_2m_max,
      minTemp |-> daily[i].temperature_2m_min,
      precipitation |-> IF "precipitation_sum" \in daily[i].nulls
                          \/ daily[i].precipitation_sum = 0
                        THEN 0 ELSE daily[i].precipitation_sum,
      windSpeed |-> daily[i].windspeed_10m_max,
      snowfall |-> IF "snowfall_sum" \in daily[i].nulls \/ daily[i].snowfall_sum = 0
                   THEN 0 ELSE daily[i].snowfall_sum,
      cloudCover |-> daily[i].cloudcover_mean,
      missing |-> {},
      nulls |-> {fieldOf(array) :
                   array \in daily[i].nulls \ {"precipitation_sum", "snowfall_sum"}}]]

Requests == {"q1", "q2"}

Callers == {"a", "b"}

----------------------------------------------------------------------------
(* State machine *)

Idle == [pc |-> "idle", weatherData |-> <<>>, rankings |-> <<>>]

NoScores == [a \in {activities[i] : i \in 1..Len(activities)} |-> Whole(0)]

BandOff == [pc |-> "off", score |-> Whole(0), conditions |-> "", color |-> ""]

NoResult == [location |-> "", latitude |-> 0, longitude |-> 0,
             dailyWeather |-> <<>>, rankings |-> <<>>]

NoRequest == [pc |-> "idle", location |-> "", steps |-> <<>>, geo |-> <<>>,
              weatherData |-> <<>>, thrown |-> "", error |-> "", result |-> NoResult]

TypeOK ==
  /\ scorePc \in {"off", "ready", "scored"}
  /\ \A c \in Callers : calls[c].pc \in {"idle", "running", "returned"}

\* Calls of calculateActivityRankings by the callers.
Init ==
  /\ weather = SunnyDay
  /\ scores = NoScores
  /\ scorePc = "off"
  /\ calls = [c \in Callers |-> Idle]
  /\ band = BandOff
  /\ requests = [q \in Requests |-> NoRequest]

\* Caller c invokes calculateActivityRankings(weatherData).
Call(c, weatherData) ==
  /\ calls[c].pc = "idle"
  /\ calls' = [calls EXCEPT ![c] =
                 [pc |-> "running", weatherData |-> weatherData, rankings |-> <<>>]]
  /\ UNCHANGED <<weather, scores, scorePc, band, requests>>

\* One callback of activities.map in the call of c; the map, and with it
\* the function, returns after the callback of the last activity.
MapActivity(c) ==
  /\ calls[c].pc = "running"
  /\ LET k == Len(calls[c].rankings) + 1
         r == rankActivity(activities[k], calls[c].weatherData)
     IN  calls' = [calls EXCEPT
                     ![c].weatherData = weatherDataAfterMap(@),
                     ![c].rankings = Append(@, r),
                     ![c].pc = IF k = Len(activities) THEN "returned" ELSE "running"]
  /\ UNCHANGED <<weather, scores, scorePc, band, requests>>

\* Caller c has consumed the result and may call again.
Release(c) ==
  /\ calls[c].pc = "returned"
  /\ calls' = [calls EXCEPT ![c] = Idle]
  /\ UNCHANGED <<weather, scores, scorePc, band, requests>>

Next ==
  \/ \E c \in Callers, weatherData \in WeatherSeqs : Call(c, weatherData)
  \/ \E c \in Callers : MapActivity(c)
  \/ \E c \in Callers : Release(c)

Spec == Init /\ [][Next]_vars

\* The text helpers applied to one integer score of 0..100.
BandInit ==
  /\ weather = SunnyDay
  /\ scores = NoScores
  /\ scorePc = "off"
  /\ calls = [c \in Callers |-> Idle]
  /\ band \in {[pc |-> "ready", score |-> Whole(n), conditions |-> "", color |-> ""] :
                 n \in 0..100}
  /\ requests = [q \in Requests |-> NoRequest]

\* The backend labels the score and the card colours it.
Describe ==
  /\ band.pc = "ready"
  /\ band' = [band EXCEPT !.pc = "described",
                          !.conditions = getConditionDescription(band.score),
                          !.color = getScoreColor(band.score)]
  /\ UNCHANGED <<weather, scores, scorePc, calls, requests>>

BandNext == Describe

BandSpec == BandInit /\ [][BandNext]_vars

\* A client sends getActivityForecast(location): the resolver calls
\* geocodeLocation, whose request is then in flight.
Resolve(q, location) ==
  /\ requests[q].pc = "idle"
  /\ requests' = [requests EXCEPT ![q] =
                    [NoRequest EXCEPT !.pc = "geocoding", !.location = location,
                                      !.steps = <<"geocodeLocation">>]]
  /\ UNCHANGED <<weather, scores, scorePc, calls, band>>

\* The geocoding API answers and geocodeLocation resumes: without results
\* it throws, which rejects its promise, and otherwise it returns the
\* place.  The resolver awaits that promise and resumes in a later step.
GeocodeResponds(q, results) ==
  /\ requests[q].pc = "geocoding"
  /\ LET g == geocodeLocation(requests[q].location, results)
     IN  requests' = [requests EXCEPT ![q] =
           IF g.ok
           THEN [@ EXCEPT !.pc = "geocoded", !.geo = g.value]
           ELSE [@ EXCEPT !.pc = "geocodeThrew", !.thrown = g.message]]
  /\ UNCHANGED <<weather, scores, scorePc, calls, band>>

\* The geocoding request fails and the catch block of geocodeLocation
\* throws.
GeocodeFails(q, message) ==
  /\ requests[q].pc = "geocoding"
  /\ requests' = [requests EXCEPT ![q] =
        [@ EXCEPT !.pc = "geocodeThrew", !.thrown = geocodeCatch(message)]]
  /\ UNCHANGED <<weather, scores, scorePc, calls, band>>

\* The resolver resumes after `await geocodeLocation(location)` with the
\* place and calls getWeatherForecast, whose request is then in flight.
ResumeWithGeocode(q) ==
  /\ requests[q].pc = "geocoded"
  /\ requests' = [requests EXCEPT ![q] =
        [@ EXCEPT !.pc = "fetching", !.steps = Append(@, "getWeatherForecast")]]
  /\ UNCHANGED <<weather, scores, scorePc, calls, band>>

\* The forecast API answers and getWeatherForecast resumes: it returns the
\* days.  The resolver awaits that promise and resumes in a later step.
ForecastResponds(q, daily) ==
  /\ requests[q].pc = "fetching"
  /\ requests' = [requests EXCEPT ![q] =
        [@ EXCEPT !.pc = "fetched", !.weatherData = toWeatherData(daily)]]
  /\ UNCHANGED <<weather, scores, scorePc, calls, band>>

\* The forecast request fails, or its response has no daily block and
\* reading daily.time throws inside the try block: the catch block of
\* getWeatherForecast throws.
ForecastFails(q, message) ==
  /\ requests[q].pc = "fetching"
  /\ requests' = [requests EXCEPT ![q] =
        [@ EXCEPT !.pc = "forecastThrew", !.thrown = forecastCatch(message)]]
  /\ UNCHANGED <<weather, scores, scorePc, calls, band>>

\* The resolver resumes after `await getWeatherForecast(...)` with the
\* days, ranks them and returns the forecast.
ResumeWithForecast(q) ==
  /\ requests[q].pc = "fetched"
  /\ LET weatherData == requests[q].weatherData
         rankings == calculateActivityRankings(weatherData)
     IN  requests' = [requests EXCEPT ![q] =
           [@ EXCEPT !.pc = "resolved",
                     !.steps = Append(@, "calculateActivityRankings"),
                     !.result = [location |-> requests[q].geo[1].displayName,
                                 latitude |-> requests[q].geo[1].latitude,
                                 longitude |-> requests[q].geo[1].longitude,
                                 dailyWeather |-> weatherData,
                                 rankings |-> rankings]]]
  /\ UNCHANGED <<weather, scores, scorePc, calls, band>>

\* The resolver resumes after an await whose promise was rejected: its
\* catch block throws, which rejects the resolver's promise.
ResumeInCatch(q) ==
  /\ requests[q].pc \in {"geocodeThrew", "forecastThrew"}
  /\ requests' = [requests EXCEPT ![q] =
        [@ EXCEPT !.pc = "rejected",
                  !.error = resolverCatch(requests[q].location, requests[q].thrown)]]
  /\ UNCHANGED <<weather, scores, scorePc, calls, band>>

\* The answer, data or error, has gone to the client.
Respond(q) ==
  /\ requests[q].pc \in {"resolved", "rejected"}
  /\ requests' = [requests EXCEPT ![q] = NoRequest]
  /\ UNCHANGED <<weather, scores, scorePc, calls, band>>

ResolverNext ==
  \/ \E q \in Requests, location \in Locations : Resolve(q, location)
  \/ \E q \in Requests, results \in GeocodeResults : GeocodeResponds(q, results)
  \/ \E q \in Requests, message \in ApiErrors : GeocodeFails(q, message)
  \/ \E q \in Requests : ResumeWithGeocode(q)
  \/ \E q \in Requests, daily \in ForecastResponses : ForecastResponds(q, daily)
  \/ \E q \in Requests,
        message \in ApiErrors \cup {"Cannot read properties of undefined (reading 'time')"} :
          ForecastFails(q, message)
  \/ \E q \in Requests : ResumeWithForecast(q)
  \/ \E q \in Requests : ResumeInCatch(q)
  \/ \E q \in Requests : Respond(q)

ResolverSpec == Init /\ [][ResolverNext]_vars

\* One caller ranking whole weeks, call after call.
WeekNext ==
  \/ \E weatherData \in WeekSeqs : Call("a", weatherData)
  \/ MapActivity("a")
  \/ Release("a")

WeekSpec == Init /\ [][WeekNext]_vars

\* The scoring functions applied to one day of the grid.
ScoreInit ==
  /\ weather \in {Day("2024-06-01", t, m, p, w, s, cl, {}) :
                    t \in GridMaxTemp, m \in GridMinTemp, p \in GridPrecipitation,
                    w \in GridWindSpeed, s \in GridSnowfall, cl \in GridCloudCover}
  /\ scores = NoScores
  /\ scorePc = "ready"
  /\ calls = [c \in Callers |-> Idle]
  /\ band = BandOff
  /\ requests = [q \in Requests |-> NoRequest]

ScoreDay ==
  /\ scorePc = "ready"
  /\ scores' = [a \in DOMAIN scores |-> scoreFn(a, weather)]
  /\ scorePc' = "scored"
  /\ UNCHANGED <<weather, calls, band, requests>>

ScoreNext == ScoreDay

ScoreSpec == ScoreInit /\ [][ScoreNext]_vars

----------------------------------------------------------------------------
(* Properties *)

\* The weather fields of w are those of the day d.
IsDay(w, d) ==
  /\ w.maxTemp = d.maxTemp /\ w.minTemp = d.minTemp
  /\ w.precipitation = d.precipitation /\ w.windSpeed = d.windSpeed
  /\ w.snowfall = d.snowfall /\ w.cloudCover = d.cloudCover
  /\ w.missing = d.missing /\ w.nulls = d.nulls

\* The sum of the scores of a dailyScores sequence as a real number, with
\* no rounding: the decimal parts and the distances add up separately.
RECURSIVE ScoreSumUpTo(_, _)
ScoreSumUpTo(dailyScores, i) ==
  IF i = 0 THEN [k |-> 0, r |-> 0]
  ELSE LET rest == ScoreSumUpTo(dailyScores, i - 1)
       IN  [k |-> rest.k + dailyScores[i].score.k, r |-> rest.r + dailyScores[i].score.r]

\* x is an integer
IsInteger(x) == x.k % Scale = 0 /\ x.r = 0

\* x clamped to [0, 100]
Clamped(x) == IF Less(x, Whole(0)) THEN Whole(0) ELSE IF Less(Whole(100), x) THEN Whole(100) ELSE x

\* C1: for every day whose fields are all numeric, extreme values included,
\* each of the four scoring functions returns a score between 0 and 100.
C1_ScoresWithinBounds ==
  scorePc = "scored" =>
    \A a \in DOMAIN scores : ~Less(scores[a], Whole(0)) /\ ~Less(Whole(100), scores[a])

\* A scored day with snowfall 1000 and precipitation 1000, whose rain
\* deduction drives Outdoor Sightseeing to the lower clamp.
C1_Witness ==
  /\ scorePc = "scored"
  /\ weather.snowfall = Num(1000)
  /\ weather.precipitation = Num(1000)
  /\ scores["Outdoor Sightseeing"] = Whole(0)
  /\ Less(Whole(0), scores["Skiing"])

\* C2: for a non-empty day sequence, averageScore is the mean of the
\* ranking's dailyScores[].score values rounded to the nearest integer, a
\* mean of x.5 rounded up: averageScore - 1/2 <= mean < averageScore + 1/2.
C2_AverageIsRoundedMean ==
  \A c \in Callers : \A k \in 1..Len(calls[c].rankings) :
    LET ranking == calls[c].rankings[k]
        n == Len(ranking.dailyScores)
        total == ScoreSumUpTo(ranking.dailyScores, n)
        avg == ranking.averageScore
        low == (2 * avg.val - Scale) * n
        high == (2 * avg.val + Scale) * n
    IN  Len(calls[c].weatherData) > 0 =>
          /\ ~avg.nan
          /\ avg.val % Scale = 0
          /\ low < 2 * total.k \/ (low = 2 * total.k /\ total.r >= 0)
          /\ 2 * total.k < high \/ (2 * total.k = high /\ total.r < 0)

\* C3: a call with an empty weather sequence fails with an
\* InvalidInputError: it does not return, and it produces no ranking whose
\* averageScore is NaN.
C3_EmptyInputRejected ==
  \A c \in Callers :
    (calls[c].pc # "idle" /\ calls[c].weatherData = <<>>) =>
      /\ calls[c].pc # "returned"
      /\ \A k \in 1..Len(calls[c].rankings) : ~calls[c].rankings[k].averageScore.nan

\* C4: a call with a day that lacks a required field, or holds a
\* non-numeric value for it, fails with an InvalidInputError: it does not
\* return and produces no ranking, partial or complete.
C4_MissingFieldRejected ==
  \A c \in Callers :
    (\E i \in 1..Len(calls[c].weatherData) :
        calls[c].weatherData[i].missing # {} \/ calls[c].weatherData[i].nulls # {}) =>
      /\ calls[c].pc # "returned"
      /\ calls[c].rankings = <<>>

\* C5: every dailyScores[].score of every ranking is an integer, for every
\* activity and every valid day, fractional precipitation or snowfall
\* included.
C5_DailyScoresAreIntegers ==
  \A c \in Callers : \A k \in 1..Len(calls[c].rankings) :
    \A i \in 1..Len(calls[c].rankings[k].dailyScores) :
      (calls[c].weatherData[i].missing = {} /\ calls[c].weatherData[i].nulls = {}) =>
        IsInteger(calls[c].rankings[k].dailyScores[i].score)

\* C6 as stated: the day {maxTemp:25, minTemp:15, precipitation:0,
\* windSpeed:20, snowfall:0, cloudCover:10} scores Surfing 95, Outdoor
\* Sightseeing 100 and Indoor Sightseeing 50.
C6_SunnyDayIndoorFifty ==
  (scorePc = "scored" /\ IsDay(weather, SunnyDay)) =>
    /\ scores["Surfing"] = Whole(95)
    /\ scores["Outdoor Sightseeing"] = Whole(100)
    /\ scores["Indoor Sightseeing"] = Whole(50)

\* C6, amended: that day scores Surfing 95, Outdoor Sightseeing 100 and
\* Indoor Sightseeing 70; the nice-weather penalty does not apply, because
\* maxTemp = 25 is not strictly below 25.
C6_SunnyDayScores ==
  (scorePc = "scored" /\ IsDay(weather, SunnyDay)) =>
    /\ scores["Surfing"] = Whole(95)
    /\ scores["Outdoor Sightseeing"] = Whole(100)
    /\ scores["Indoor Sightseeing"] = Whole(70)

\* The day of C6, scored.
C6_Witness ==
  /\ scorePc = "scored"
  /\ IsDay(weather, SunnyDay)
  /\ weather.maxTemp = Num(25) /\ weather.cloudCover = Num(10)
  /\ scores["Indoor Sightseeing"] = Whole(70)

\* C8: for every valid day, scoreSkiing is the clamp to [0, 100] of
\* min(50, snowfall*5) if snowfall > 0, plus 30 if maxTemp < 2 else 15 if
\* maxTemp < 7, minus 15 if windSpeed > 40, minus 10 if precipitation > 5;
\* the day {maxTemp:1, minTemp:-5, precipitation:0, windSpeed:10,
\* snowfall:4, cloudCover:20} scores 50.
C8_SkiingRule ==
  scorePc = "scored" =>
    LET w == weather
        times5 == Mul(Literal(w.snowfall), 5)
        snow == IF w.snowfall > Num(0)
                THEN (IF Less(Whole(50), times5) THEN Whole(50) ELSE times5)
                ELSE Whole(0)
        cold == IF w.maxTemp < Num(2) THEN Whole(30)
                ELSE IF w.maxTemp < Num(7) THEN Whole(15) ELSE Whole(0)
        wind == IF w.windSpeed > Num(40) THEN Whole(15) ELSE Whole(0)
        rain == IF w.precipitation > Num(5) THEN Whole(10) ELSE Whole(0)
    IN  /\ scores["Skiing"] = Clamped(Sub(Sub(Add(Add(Whole(0), snow), cold), wind), rain))
        /\ IsDay(w, SnowyDay) => scores["Skiing"] = Whole(50)

\* The day of C8, scored 50.
C8_Witness ==
  /\ scorePc = "scored"
  /\ IsDay(weather, SnowyDay)
  /\ weather.snowfall = Num(4) /\ weather.maxTemp = Num(1)
  /\ scores["Skiing"] = Whole(50)

\* C9: for every valid day, scoreSurfing is the clamp to [0, 100] of 50,
\* plus 25 if 10 < windSpeed < 35 else minus 20 if windSpeed > 40, plus 20
\* if maxTemp > 18, minus 15 if precipitation > 8; a windSpeed in [35, 40]
\* or at most 10 contributes nothing.
C9_SurfingRule ==
  scorePc = "scored" =>
    LET w == weather
        wind == IF Num(10) < w.windSpeed /\ w.windSpeed < Num(35) THEN Whole(25)
                ELSE IF w.windSpeed > Num(40) THEN Whole(0 - 20) ELSE Whole(0)
        warm == IF w.maxTemp > Num(18) THEN Whole(20) ELSE Whole(0)
        rain == IF w.precipitation > Num(8) THEN Whole(15) ELSE Whole(0)
    IN  /\ scores["Surfing"] = Clamped(Sub(Add(Add(Whole(50), wind), warm), rain))
        /\ ((Num(35) <= w.windSpeed /\ w.windSpeed <= Num(40)) \/ w.windSpeed <= Num(10))
             => scores["Surfing"] = Clamped(Sub(Add(Whole(50), warm), rain))

\* A scored day with windSpeed 37, in the dead zone: 50 + 20 for the
\* temperature and nothing for the wind.
C9_Witness ==
  /\ scorePc = "scored"
  /\ weather.windSpeed = Num(37)
  /\ weather.maxTemp > Num(18)
  /\ weather.precipitation = Num(0)
  /\ scores["Surfing"] = Whole(70)

\* C10: for every valid day, scoreOutdoorSightseeing is the clamp to
\* [0, 100] of 60, plus 20 if cloudCover < 40 else minus 10 if cloudCover >
\* 80, plus 20 if 15 <= maxTemp <= 28 else minus 20 if maxTemp < 5 or
\* maxTemp > 35, minus precipitation*2 if precipitation > 0; temperatures
\* in [5, 15) and (28, 35] and cloud cover in [40, 80] contribute nothing.
C10_OutdoorRule ==
  scorePc = "scored" =>
    LET w == weather
        cloud == IF w.cloudCover < Num(40) THEN Whole(20)
                 ELSE IF w.cloudCover > Num(80) THEN Whole(0 - 10) ELSE Whole(0)
        temp == IF Num(15) <= w.maxTemp /\ w.maxTemp <= Num(28) THEN Whole(20)
                ELSE IF w.maxTemp < Num(5) \/ w.maxTemp > Num(35) THEN Whole(0 - 20)
                ELSE Whole(0)
        rain == IF w.precipitation > Num(0) THEN Mul(Literal(w.precipitation), 2)
                ELSE Whole(0)
        tempNeutral == \/ (Num(5) <= w.maxTemp /\ w.maxTemp < Num(15))
                       \/ (Num(28) < w.maxTemp /\ w.maxTemp <= Num(35))
        cloudNeutral == Num(40) <= w.cloudCover /\ w.cloudCover <= Num(80)
    IN  /\ scores["Outdoor Sightseeing"] = Clamped(Sub(Add(Add(Whole(60), cloud), temp), rain))
        /\ tempNeutral => scores["Outdoor Sightseeing"] = Clamped(Sub(Add(Whole(60), cloud), rain))
        /\ cloudNeutral => scores["Outdoor Sightseeing"] = Clamped(Sub(Add(Whole(60), temp), rain))

\* A scored day at the inclusive bound maxTemp = 28, with cloud cover 40
\* and precipitation 0.3: 60 + 20 - 0.6, a double that is not an integer.
C10_Witness ==
  /\ scorePc = "scored"
  /\ weather.maxTemp = Num(28)
  /\ weather.cloudCover = Num(40)
  /\ weather.precipitation = 3
  /\ scores["Outdoor Sightseeing"].k = Num(80) - 6
  /\ ~IsInteger(scores["Outdoor Sightseeing"])

\* C11: for every valid day, scoreIndoorSightseeing is 70, plus 15 if
\* precipitation > 5, plus 15 if maxTemp < 5 or maxTemp > 30, minus 20
\* exactly when precipitation = 0, cloudCover < 50 and 15 < maxTemp < 25
\* all hold, both temperature bounds strict.
C11_IndoorRule ==
  scorePc = "scored" =>
    LET w == weather
        rain == IF w.precipitation > Num(5) THEN Whole(15) ELSE Whole(0)
        extreme == IF w.maxTemp < Num(5) \/ w.maxTemp > Num(30) THEN Whole(15) ELSE Whole(0)
        nice == /\ w.precipitation = Num(0)
                /\ w.cloudCover < Num(50)
                /\ Num(15) < w.maxTemp /\ w.maxTemp < Num(25)
    IN  /\ scores["Indoor Sightseeing"] =
             Sub(Add(Add(Whole(70), rain), extreme), IF nice THEN Whole(20) ELSE Whole(0))
        /\ (w.maxTemp = Num(15) \/ w.maxTemp = Num(25))
             => scores["Indoor Sightseeing"] = Add(Whole(70), rain)

\* A scored dry, clear day just above 15 degrees, which takes the penalty.
C11_Witness ==
  /\ scorePc = "scored"
  /\ weather.precipitation = Num(0)
  /\ weather.cloudCover = Num(50) - 1
  /\ weather.maxTemp = Num(15) + 1
  /\ scores["Indoor Sightseeing"] = Whole(50)

\* C12: in every dailyScores entry, conditions is the classification of
\* that entry's own score: Great from 75, Good from 60, OK from 40, Poor
\* below.
C12_ConditionsClassifyScore ==
  \A c \in Callers : \A k \in 1..Len(calls[c].rankings) :
    \A i \in 1..Len(calls[c].rankings[k].dailyScores) :
      LET e == calls[c].rankings[k].dailyScores[i]
      IN  /\ AtLeast(e.score, Whole(75)) => e.conditions = "Great"
          /\ (AtLeast(e.score, Whole(60)) /\ Less(e.score, Whole(75))) => e.conditions = "Good"
          /\ (AtLeast(e.score, Whole(40)) /\ Less(e.score, Whole(60))) => e.conditions = "OK"
          /\ Less(e.score, Whole(40)) => e.conditions = "Poor"

\* A returned ranking with an entry scored between 75 and 80 and labelled
\* Great, next to a Poor entry.
C12_Witness ==
  \E c \in Callers :
    /\ calls[c].pc = "returned"
    /\ \E k \in 1..Len(calls[c].rankings) :
         \E i \in 1..Len(calls[c].rankings[k].dailyScores) :
           LET e == calls[c].rankings[k].dailyScores[i]
           IN  AtLeast(e.score, Whole(75)) /\ Less(e.score, Whole(80)) /\ e.conditions = "Great"
    /\ \E k \in 1..Len(calls[c].rankings) :
         \E i \in 1..Len(calls[c].rankings[k].dailyScores) :
           calls[c].rankings[k].dailyScores[i].conditions = "Poor"

\* C14: for any input the function returns exactly four rankings, in the
\* order Skiing, Surfing, Outdoor Sightseeing, Indoor Sightseeing,
\* whatever their averageScore values.
C14_FixedActivityOrder ==
  \A c \in Callers :
    LET order == <<"Skiing", "Surfing", "Outdoor Sightseeing", "Indoor Sightseeing">>
    IN  /\ Len(calls[c].rankings) <= 4
        /\ \A k \in 1..Len(calls[c].rankings) : calls[c].rankings[k].activity = order[k]
        /\ calls[c].pc = "returned" => Len(calls[c].rankings) = 4

\* A returned result whose first ranking has a lower averageScore than its
\* second: the order is not by score.
C14_Witness ==
  \E c \in Callers :
    /\ calls[c].pc = "returned"
    /\ Len(calls[c].rankings) = 4
    /\ calls[c].rankings[1].activity = "Skiing"
    /\ ~calls[c].rankings[1].averageScore.nan
    /\ calls[c].rankings[1].averageScore.val < calls[c].rankings[2].averageScore.val
    /\ calls[c].rankings[4].averageScore.val < calls[c].rankings[3].averageScore.val

\* C15: every dailyScores sequence has the length of the input sequence
\* and its i-th entry carries the date of the i-th input day.
C15_DailyScoresFollowInput ==
  \A c \in Callers : \A k \in 1..Len(calls[c].rankings) :
    LET ds == calls[c].rankings[k].dailyScores
    IN  /\ Len(ds) = Len(calls[c].weatherData)
        /\ \A i \in 1..Len(ds) : ds[i].date = calls[c].weatherData[i].date

\* A returned call on two days with different dates.
C15_Witness ==
  \E c \in Callers :
    /\ calls[c].pc = "returned"
    /\ Len(calls[c].weatherData) = 2
    /\ calls[c].weatherData[1].date # calls[c].weatherData[2].date
    /\ \A k \in 1..4 :
         /\ Len(calls[c].rankings[k].dailyScores) = 2
         /\ calls[c].rankings[k].dailyScores[2].date = calls[c].weatherData[2].date

\* C16: a step of an invocation leaves the invocation's input sequence,
\* and every day record in it, as it was, and changes nothing that belongs
\* to another invocation.
C16_InputAndOthersUnchanged ==
  [][\A c \in Callers :
       calls[c].pc = "running" =>
         /\ calls'[c].weatherData = calls[c].weatherData
         /\ \A d \in Callers \ {c} :
              calls'[c] # calls[c] => calls'[d] = calls[d]]_vars

\* One caller has returned from a call on two different days while the
\* other caller is inside a call on another input.
C16_Witness ==
  \E c \in Callers, d \in Callers :
    /\ c # d
    /\ calls[c].pc = "returned"
    /\ Len(calls[c].weatherData) = 2
    /\ calls[c].weatherData[1] # calls[c].weatherData[2]
    /\ calls[d].pc = "running"
    /\ Len(calls[d].rankings) > 0
    /\ calls[d].weatherData # calls[c].weatherData

\* C13: the recommendation of every ranking is determined by its activity
\* name and averageScore: Perfect week from 70, Decent conditions from 50,
\* Not the best week otherwise; seven days each scoring 80 give
\* averageScore 80 and the Perfect week text.
C13_RecommendationFromAverage ==
  \A c \in Callers : \A k \in 1..Len(calls[c].rankings) :
    LET r == calls[c].rankings[k]
        avg == r.averageScore
        text == IF ~avg.nan /\ avg.val >= 70 * Scale
                  THEN "Perfect week for " \o r.activity \o "!"
                ELSE IF ~avg.nan /\ avg.val >= 50 * Scale
                  THEN "Decent conditions for " \o r.activity \o " this week."
                ELSE "Not the best week for " \o r.activity \o "."
        eighties == /\ Len(r.dailyScores) = 7
                    /\ \A i \in 1..7 : r.dailyScores[i].score = Whole(80)
    IN  /\ r.recommendation = text
        /\ eighties => /\ ~avg.nan
                       /\ avg.val = 80 * Scale
                       /\ r.recommendation = "Perfect week for " \o r.activity \o "!"

\* A returned week of seven days each scoring 80 for Skiing.
C13_Witness ==
  /\ calls["a"].pc = "returned"
  /\ Len(calls["a"].weatherData) = 7
  /\ \A i \in 1..7 : calls["a"].rankings[1].dailyScores[i].score = Whole(80)
  /\ calls["a"].rankings[1].averageScore.val = 80 * Scale
  /\ calls["a"].rankings[1].recommendation = "Perfect week for Skiing!"

\* C17: for every integer score of 0..100 the label of
\* getConditionDescription lies in the band the documented scoring system
\* gives the score, which is also the band of getScoreColor: 80-100 top
\* (Excellent, Great), 60-79 Good, 40-59 Fair (OK), below 40 Poor.
C17_LabelInDocumentedBand ==
  band.pc = "described" =>
    LET claimed == IF AtLeast(band.score, Whole(80)) THEN "top"
                   ELSE IF AtLeast(band.score, Whole(60)) THEN "good"
                   ELSE IF AtLeast(band.score, Whole(40)) THEN "fair"
                   ELSE "poor"
        ofLabel == CASE band.conditions = "Great" -> "top"
                     [] band.conditions = "Good" -> "good"
                     [] band.conditions = "OK" -> "fair"
                     [] band.conditions = "Poor" -> "poor"
        documented == scoringSystemBand(band.score)
        ofDocumented == CASE documented = "Excellent" -> "top"
                          [] documented = "Good" -> "good"
                          [] documented = "Fair" -> "fair"
                          [] documented \in {"Poor", "Very poor"} -> "poor"
        ofColor == CASE band.color = "#10b981" -> "top"
                     [] band.color = "#3b82f6" -> "good"
                     [] band.color = "#f59e0b" -> "fair"
                     [] band.color \in {"#ef4444", "#6b7280"} -> "poor"
    IN  /\ ofDocumented = claimed
        /\ ofColor = claimed
        /\ ofLabel = claimed

\* C18: the resolver runs geocodeLocation, getWeatherForecast and
\* calculateActivityRankings in that order; when geocoding or the forecast
\* fetch fails no later step runs, no forecast is returned, and the
\* resolver rejects with 'Failed to fetch forecast for {location}: '
\* followed by the message of the error the failed step threw.
C18_ResolverOrderAndFailure ==
  \A q \in Requests :
    LET r == requests[q]
        order == <<"geocodeLocation", "getWeatherForecast", "calculateActivityRankings">>
        nothingReturned == /\ r.result.rankings = <<>> /\ r.result.dailyWeather = <<>>
                           /\ r.result.location = ""
    IN  /\ Len(r.steps) <= 3
        /\ \A i \in 1..Len(r.steps) : r.steps[i] = order[i]
        /\ r.pc \in {"geocoding", "geocoded"} => Len(r.steps) = 1
        /\ r.pc \in {"fetching", "fetched"} => Len(r.steps) = 2
        /\ r.pc = "resolved" => (Len(r.steps) = 3 /\ Len(r.result.rankings) = 4 /\ r.error = "")
        /\ r.pc = "geocodeThrew" => (Len(r.steps) = 1 /\ r.thrown # "" /\ nothingReturned)
        /\ r.pc = "forecastThrew" => (Len(r.steps) = 2 /\ r.thrown # "" /\ nothingReturned)
        /\ r.pc = "rejected" =>
             /\ Len(r.steps) \in {1, 2}
             /\ nothingReturned
             /\ r.thrown # ""
             /\ r.error = "Failed to fetch forecast for " \o r.location \o ": " \o r.thrown

\* A request rejected after a failed forecast fetch while the other request
\* was rejected by a failed geocoding.
C18_Witness ==
  \E q \in Requests, p \in Requests :
    /\ requests[q].pc = "rejected"
    /\ requests[q].steps = <<"geocodeLocation", "getWeatherForecast">>
    /\ requests[q].error =
         "Failed to fetch forecast for London: Weather forecast failed: Network Error"
    /\ requests[p].pc = "rejected"
    /\ requests[p].steps = <<"geocodeLocation">>
    /\ requests[p].error =
         "Failed to fetch forecast for Atlantis: Location \"Atlantis\" not found"

====
